---- MODULE Spec2Model ----
(***************************************************************************)
(* Model of the progress board widget (src/progress_board_widget.py):      *)
(* the poll loop of ProgressBoardWidget, its stage checklist, the repo     *)
(* index cache keyed by modification time, the detail table, the           *)
(* completion trigger and the window host of run_progress_board.           *)
(*                                                                         *)
(* A Python string is a sequence of one-character strings, so that         *)
(* str.lower, str.strip and f-string concatenation are computed.           *)
(***************************************************************************)
EXTENDS Integers, Sequences, FiniteSets, TLC

\* ------------------------------------------------------------------------
\* Bounds of the model
\* ------------------------------------------------------------------------

\* largest modification time an index file takes
MaxMtime == 2

\* largest number of board launches of main_json that is followed
MaxLaunches == 2

\* longest message log of a stage
MaxMessages == 3

\* ------------------------------------------------------------------------
\* Python strings
\* ------------------------------------------------------------------------

Whitespace == {" ", "\t", "\n"}

UpperLetters ==
  <<"A","B","C","D","E","F","G","H","I","J","K","L","M",
    "N","O","P","Q","R","S","T","U","V","W","X","Y","Z">>

LowerLetters ==
  <<"a","b","c","d","e","f","g","h","i","j","k","l","m",
    "n","o","p","q","r","s","t","u","v","w","x","y","z">>

\* the characters of the model's strings
Chars ==
  {UpperLetters[i] : i \in 1..26} \cup {LowerLetters[i] : i \in 1..26}
    \cup Whitespace
    \cup {"0", "1", "2", "-", "(", ")", "|", "/", "<", ">", "_", "."}

\* str.lower, character by character
LowerTable ==
  [c \in Chars |->
     IF \E i \in 1..26 : UpperLetters[i] = c
       THEN LowerLetters[CHOOSE i \in 1..26 : UpperLetters[i] = c]
       ELSE c]

\* str.upper, character by character
UpperTable ==
  [c \in Chars |->
     IF \E i \in 1..26 : LowerLetters[i] = c
       THEN UpperLetters[CHOOSE i \in 1..26 : LowerLetters[i] = c]
       ELSE c]

\* str.lower on one character
LowerChar(c) == LowerTable[c]

\* str.upper on one character
UpperChar(c) == UpperTable[c]

\* str.lower
Lower(s) == [i \in 1..Len(s) |-> LowerChar(s[i])]

\* str.upper
Upper(s) == [i \in 1..Len(s) |-> UpperChar(s[i])]

\* str.capitalize: first character upper-cased, the rest lower-cased
Capitalize(s) ==
  [i \in 1..Len(s) |-> IF i = 1 THEN UpperChar(s[i]) ELSE LowerChar(s[i])]

RECURSIVE LStrip(_)
\* str.lstrip
LStrip(s) ==
  IF s = <<>> THEN <<>>
  ELSE IF Head(s) \in Whitespace THEN LStrip(Tail(s))
  ELSE s

RECURSIVE RStrip(_)
\* str.rstrip
RStrip(s) ==
  IF s = <<>> THEN <<>>
  ELSE IF s[Len(s)] \in Whitespace THEN RStrip(SubSeq(s, 1, Len(s) - 1))
  ELSE s

\* str.strip
Strip(s) == RStrip(LStrip(s))

\* the words the source names
S_completed == <<"c","o","m","p","l","e","t","e","d">>
S_attention == <<"a","t","t","e","n","t","i","o","n">>
S_blocked == <<"b","l","o","c","k","e","d">>
S_running == <<"r","u","n","n","i","n","g">>
S_pending == <<"p","e","n","d","i","n","g">>
S_failed == <<"f","a","i","l","e","d">>
S_done == <<"d","o","n","e">>
S_queued == <<"q","u","e","u","e","d">>
S_repo == <<"<","r","e","p","o",">">>

\* _DONE_STATUSES
DONE_STATUSES == {S_completed, S_attention, S_blocked}

\* Qt.CheckState
Checked == "Checked"
PartiallyChecked == "PartiallyChecked"
Unchecked == "Unchecked"

\* ------------------------------------------------------------------------
\* Stage checklist: pure helpers
\* ------------------------------------------------------------------------

RECURSIVE MessageSuffix_First(_)
\* _message_suffix that walks the messages in their own order
MessageSuffix_First(messages) ==
  IF messages = <<>> THEN <<>>
  ELSE LET text == Strip(Head(messages))
       IN IF text # <<>>
            THEN <<" ", "(">> \o text \o <<")">>
            ELSE MessageSuffix_First(Tail(messages))

RECURSIVE MessageSuffix(_)
\* _message_suffix: the last message that is non-empty after strip
MessageSuffix(messages) ==
  IF messages = <<>> THEN <<>>
  ELSE LET text == Strip(messages[Len(messages)])
       IN IF text # <<>>
            THEN <<" ", "(">> \o text \o <<")">>
            ELSE MessageSuffix(SubSeq(messages, 1, Len(messages) - 1))

\* _check_state_for_status without the strip
CheckStateForStatus_NoStrip(status) ==
  LET normalized == Lower(status)
  IN IF normalized \in DONE_STATUSES THEN Checked
     ELSE IF normalized = S_running THEN PartiallyChecked
     ELSE IF normalized = S_pending THEN Unchecked
     ELSE PartiallyChecked

\* _check_state_for_status
CheckStateForStatus(status) ==
  LET normalized == Strip(Lower(status))
  IN IF normalized \in DONE_STATUSES THEN Checked
     ELSE IF normalized = S_running THEN PartiallyChecked
     ELSE IF normalized = S_pending THEN Unchecked
     ELSE PartiallyChecked

\* _apply_stage_state that compares the status as written
ApplyStageState_CaseSensitive(title, status, messages) ==
  LET status_text == IF status = <<>> THEN S_pending ELSE status
  IN [text |-> title \o <<" ", "-", " ">> \o status_text
                 \o MessageSuffix(messages),
      check |-> CheckStateForStatus(Lower(status_text)),
      done |-> status_text \in DONE_STATUSES]

\* _apply_stage_state: the item's text and check state, and the returned flag
ApplyStageState(title, status, messages) ==
  LET status_text == IF status = <<>> THEN S_pending ELSE status
      normalized_status == Lower(status_text)
  IN [text |-> title \o <<" ", "-", " ">> \o status_text
                 \o MessageSuffix(messages),
      check |-> CheckStateForStatus(normalized_status),
      done |-> normalized_status \in DONE_STATUSES]

\* ------------------------------------------------------------------------
\* Repo index files and their JSON payloads
\* ------------------------------------------------------------------------

\* Path.parent: the path without its last component
RECURSIVE Parent(_)
Parent(path) ==
  IF path = <<>> THEN <<>>
  ELSE IF path[Len(path)] = "/" THEN SubSeq(path, 1, Len(path) - 1)
  ELSE Parent(SubSeq(path, 1, Len(path) - 1))

\* (entries_dir / detail_path).resolve(), for a relative detail_path
ResolvePath(dir, rel) == dir \o <<"/">> \o rel

\* _normalized_messages: message_preview is a list of strings, a string or
\* anything else
NormalizedMessages(messages_raw) ==
  IF messages_raw.kind = "list"
    THEN LET keep == SelectSeq(messages_raw.items, LAMBDA m : Strip(m) # <<>>)
         IN [i \in 1..Len(keep) |-> Strip(keep[i])]
  ELSE IF messages_raw.kind = "str"
    THEN IF Strip(messages_raw.text) # <<>>
           THEN <<Strip(messages_raw.text)>>
           ELSE <<>>
  ELSE <<>>

\* x or y on strings: the empty string (and a missing key) is falsy
OrElse(x, y) == IF x # <<>> THEN x ELSE y

\* _normalize_repo_entry without the "<repo>" placeholder
NormalizeRepoEntry_NoPlaceholder(entry, entries_dir) ==
  LET repo_id == entry.repo_id
  IN [repo_id |-> repo_id,
      display_name |-> OrElse(entry.display_name, repo_id),
      status |-> OrElse(entry.status, S_pending),
      updated_at |-> entry.updated_at,
      messages |-> NormalizedMessages(entry.message_preview),
      detail_path |-> IF entry.detail_path # <<>>
                        THEN ResolvePath(entries_dir, entry.detail_path)
                        ELSE <<>>]

\* _normalize_repo_entry, for an entry that is a dict
NormalizeRepoEntry(entry, entries_dir) ==
  LET repo_id == entry.repo_id
  IN [repo_id |-> repo_id,
      display_name |-> OrElse(entry.display_name, OrElse(repo_id, S_repo)),
      status |-> OrElse(entry.status, S_pending),
      updated_at |-> entry.updated_at,
      messages |-> NormalizedMessages(entry.message_preview),
      detail_path |-> IF entry.detail_path # <<>>
                        THEN ResolvePath(entries_dir, entry.detail_path)
                        ELSE <<>>]

\* _normalize_repo_entries: entries that are not dicts are dropped, a payload
\* that is not a list yields no entry
NormalizeRepoEntries(entries_payload, entries_dir) ==
  IF entries_payload.islist
    THEN LET dicts == SelectSeq(entries_payload.items, LAMBDA e : e.isdict)
         IN [i \in 1..Len(dicts) |-> NormalizeRepoEntry(dicts[i], entries_dir)]
    ELSE <<>>

\* _safe_stat: TRUE when path.stat() succeeds
SafeStat(fs, path) == path \in DOMAIN fs /\ fs[path].exists

\* _read_json_payload: json.loads of the file's text; "none" stands for the
\* None of a failed read or decode and of a JSON null
ReadJsonPayload(fs, path) ==
  IF ~SafeStat(fs, path) \/ fs[path].content.kind \in {"undecodable", "null"}
    THEN [kind |-> "none"]
    ELSE fs[path].content

\* _load_repo_index_payload: result "none" is the returned None, "entry" a
\* cache entry, "raise" the AttributeError of payload.get on a payload that
\* is not a dict; read tells whether the file was read
LoadRepoIndexPayload(cache, stage_id, metadata, fs) ==
  LET index_path == metadata.repo_progress_index_path
      none == [result |-> "none", entry |-> <<>>, read |-> FALSE]
  IN IF index_path = <<>> THEN none
     ELSE IF ~SafeStat(fs, index_path) THEN none
     ELSE IF stage_id \in DOMAIN cache
             /\ cache[stage_id].mtime = fs[index_path].mtime
       THEN [result |-> "entry", entry |-> cache[stage_id], read |-> FALSE]
     ELSE LET payload == ReadJsonPayload(fs, index_path)
          IN IF payload.kind = "none"
               THEN [none EXCEPT !.read = TRUE]
             ELSE IF payload.kind # "object"
               THEN [result |-> "raise", entry |-> <<>>, read |-> TRUE]
             ELSE LET entries_dir ==
                        OrElse(payload.entries_dir, Parent(index_path))
                  IN [result |-> "entry",
                      entry |-> [path |-> index_path,
                                 mtime |-> fs[index_path].mtime,
                                 entries |-> NormalizeRepoEntries(
                                               payload.entries, entries_dir)],
                      read |-> TRUE]

\* dict.pop(key, None)
Pop(cache, key) == [k \in DOMAIN cache \ {key} |-> cache[k]]

\* dict[key] = value
Put(cache, key, value) ==
  [k \in DOMAIN cache \cup {key} |-> IF k = key THEN value ELSE cache[k]]

\* _prune_stale_repo_cache
PruneStaleRepoCache(cache, observed_ids) ==
  [k \in DOMAIN cache \cap observed_ids |-> cache[k]]

\* the ids of a sequence of stages
StageIdsOf(stages) == {stages[i].stage_id : i \in 1..Len(stages)}

RECURSIVE RefreshFrom(_, _, _, _, _)
\* the loop of _refresh_stage_repo_details from the i-th stage on; an
\* exception leaves the loop and skips the pruning
RefreshFrom(cache, stages, i, fs, reads) ==
  IF i > Len(stages)
    THEN [cache |-> PruneStaleRepoCache(cache, StageIdsOf(stages)),
          raised |-> FALSE, reads |-> reads]
    ELSE LET stage == stages[i]
             loaded == LoadRepoIndexPayload(cache, stage.stage_id,
                                            stage.metadata, fs)
             reads2 == IF loaded.read THEN reads \cup {stage.stage_id}
                       ELSE reads
         IN IF loaded.result = "raise"
              THEN [cache |-> cache, raised |-> TRUE, reads |-> reads2]
            ELSE IF loaded.result = "none"
              THEN RefreshFrom(Pop(cache, stage.stage_id), stages, i + 1,
                               fs, reads2)
            ELSE RefreshFrom(Put(cache, stage.stage_id, loaded.entry),
                             stages, i + 1, fs, reads2)

\* _refresh_stage_repo_details
RefreshStageRepoDetails(cache, stages, fs) ==
  RefreshFrom(cache, stages, 1, fs, {})

RECURSIVE JoinPipe(_)
\* " | ".join(messages)
JoinPipe(messages) ==
  IF messages = <<>> THEN <<>>
  ELSE IF Len(messages) = 1 THEN messages[1]
  ELSE messages[1] \o <<" ", "|", " ">> \o JoinPipe(Tail(messages))

\* the selection value that stands for None
NoStage == <<>>

\* _update_detail_view: the rows the detail table shows afterwards
DetailView(stage_id, cache) ==
  IF stage_id = NoStage THEN <<>>
  ELSE IF stage_id \notin DOMAIN cache THEN <<>>
  ELSE LET entries == cache[stage_id].entries
       IN [row \in 1..Len(entries) |->
            LET entry == entries[row]
            IN [display |-> OrElse(entry.display_name,
                                   OrElse(entry.repo_id, S_repo)),
                status |-> OrElse(entry.status, S_pending),
                updated_at |-> entry.updated_at,
                message_text |-> JoinPipe(SelectSeq(entry.messages,
                                   LAMBDA m : Strip(m) # <<>>)),
                tooltip |-> entry.detail_path]]

\* ------------------------------------------------------------------------
\* Inputs: stage ids, snapshots and index files
\* ------------------------------------------------------------------------

S_alpha == <<"a","l","p","h","a">>
S_beta == <<"b","e","t","a">>
T_Alpha == <<"A","l","p","h","a">>
T_Beta == <<"B","e","t","a">>
\* the title the constructor is given for beta, unlike the snapshot's title
T_Build == <<"B","u","i","l","d">>
M_ok == <<"o","k">>

IndexPath1 == <<"d","/","i","1">>
IndexPath2 == <<"d","/","i","2">>
NoPath == <<>>

\* a stage of a snapshot: stage_id, title, status, messages, metadata
Stage(id, title, status, messages, path) ==
  [stage_id |-> id, title |-> title, status |-> status,
   messages |-> messages,
   metadata |-> [repo_progress_index_path |-> path]]

\* load_progress_snapshot returned None
Absent == [present |-> FALSE, stages |-> <<>>]

\* the snapshots whose stages are drawn from optsA (alpha) and optsB (beta),
\* each stage present or not
SnapshotsOf(optsA, optsB) ==
  LET seqsA == {<<>>} \cup {<<a>> : a \in optsA}
      seqsB == {<<>>} \cup {<<b>> : b \in optsB}
  IN {[present |-> TRUE, stages |-> sa \o sb] : sa \in seqsA, sb \in seqsB}

\* statuses and message logs of the checklist inputs
BoardStatuses ==
  {S_pending, Capitalize(S_completed), S_blocked \o <<" ">>, S_running}

BoardMessages == {<<>>, <<M_ok, <<" ">>>>}

\* snapshots that vary status and messages; beta may also point at an index
\* file
BoardSnapshots ==
  SnapshotsOf(
    {Stage(S_alpha, T_Alpha, st, ms, NoPath) :
       st \in BoardStatuses, ms \in BoardMessages},
    {Stage(S_beta, T_Beta, st, <<>>, NoPath) : st \in BoardStatuses}
      \cup {Stage(S_beta, T_Beta, S_pending, <<>>, IndexPath1)})

\* snapshots that vary the index path of each stage
CacheSnapshots ==
  SnapshotsOf(
    {Stage(S_alpha, T_Alpha, S_pending, <<>>, p) :
       p \in {NoPath, IndexPath1, IndexPath2}},
    {Stage(S_beta, T_Beta, S_pending, <<>>, p) :
       p \in {NoPath, IndexPath1}})

\* a raw entry of an index payload
RawEntry(repo_id, display_name, status, preview) ==
  [isdict |-> TRUE, repo_id |-> repo_id, display_name |-> display_name,
   status |-> status, updated_at |-> <<>>, message_preview |-> preview,
   detail_path |-> <<>>]

\* an entry of an index payload that is not an object
NotADict ==
  [isdict |-> FALSE, repo_id |-> <<>>, display_name |-> <<>>,
   status |-> <<>>, updated_at |-> <<>>,
   message_preview |-> [kind |-> "none"], detail_path |-> <<>>]

R_one == <<"r","1">>
R_two == <<"r","2">>

\* index file contents: text that is not JSON, a JSON array, and two objects
Undecodable == [kind |-> "undecodable"]
JsonArray == [kind |-> "array"]
ObjectA ==
  [kind |-> "object", entries_dir |-> <<>>,
   entries |-> [islist |-> TRUE,
                items |-> <<RawEntry(R_one, <<>>, S_done,
                                     [kind |-> "str", text |-> M_ok])>>]]
ObjectB ==
  [kind |-> "object", entries_dir |-> <<>>,
   entries |-> [islist |-> TRUE,
                items |-> <<RawEntry(R_one, <<>>, <<>>, [kind |-> "none"]),
                            NotADict,
                            RawEntry(<<>>, <<>>, S_running,
                                     [kind |-> "list",
                                      items |-> <<<<" ">>, M_ok>>])>>]]

FileContents == {Undecodable, JsonArray, ObjectA, ObjectB}

\* a file that does not exist
Missing == [exists |-> FALSE, mtime |-> 0, content |-> Undecodable]

File(mtime, content) == [exists |-> TRUE, mtime |-> mtime, content |-> content]

\* banner texts of _status_label
Initializing == "Initializing orchestration tooling..."
WaitingFeed == "Waiting for progress snapshot feed..."
ToolingFinished == "Tooling finished. Command center unlocking..."
AllReported == "All stages reported. Waiting for tooling shutdown..."
Tracking == "Tracking orchestration stages..."

\* ------------------------------------------------------------------------
\* State
\* ------------------------------------------------------------------------

VARIABLES
  stage_definitions,     \* _stage_definitions: sequence of [id, title]
  items,                 \* _items: stage id -> [text, check] of its row
  checklist,             \* _checklist: the stage ids of its rows, in row order
  completion_triggered,  \* _completion_triggered
  repo_index_cache,      \* _repo_index_cache: stage id -> [path, mtime, entries]
  selected_stage_id,     \* _selected_stage_id
  checklist_selection,   \* the selected row of _checklist, NoStage if none
  detail_rows,           \* the rows of _detail_table
  status_label,          \* the text of _status_label
  timer_active,          \* _timer is running
  worker_done,           \* _worker_done_event.is_set()
  files,                 \* the index files on disk
  close_pending,         \* the single-shot close timer of _finish is armed
  window_closed,         \* window.close() was called
  close_event_seen,      \* closeEvent was delivered to the widget
  emitted,               \* number of board_completed emissions
  completion_stops,      \* number of _timer.stop() calls of _handle_completion
  close_scheduled,       \* number of QTimer.singleShot calls of _finish
  construction_definitions, \* the stage_definitions the constructor got
  last_present,          \* the stages of the last present snapshot polled
  outcome,               \* how the last poll ended: "none" before any poll,
                         \* "absent", "updated", or "raised" (an exception
                         \* left _refresh_snapshot)
  all_done,              \* the all_done local of the last _update_from_snapshot
  reads,                 \* stage ids whose index file the last poll read
  seen,                  \* stage ids of all the snapshots polled so far
  poll_tick,             \* flips on every call of _refresh_snapshot
  completion_call_tick,  \* flips on every call of _handle_completion
  snapshot_file,         \* the snapshot file main_json looks at: its stages,
                         \* or NoSnapshotFile
  invocation,            \* the last main_json call: its payload and the
                         \* snapshot file it found
  result,                \* the payload the last main_json call returned
  launches               \* number of times main_json started the board

widget_vars ==
  <<stage_definitions, items, checklist, completion_triggered,
    repo_index_cache, selected_stage_id, checklist_selection, detail_rows,
    status_label, timer_active>>

host_vars == <<close_pending, window_closed, close_event_seen>>

ghost_vars ==
  <<emitted, completion_stops, close_scheduled, construction_definitions,
    last_present, outcome, all_done, reads, seen, poll_tick,
    completion_call_tick>>

entry_vars == <<snapshot_file, invocation, result, launches>>

vars == <<widget_vars, worker_done, files, host_vars, ghost_vars, entry_vars>>

\* the ids of a stage-definition list
DefIds(defs) == {defs[i].id : i \in 1..Len(defs)}

\* the texts of the checklist rows, in row order
ChecklistRows == [i \in 1..Len(checklist) |-> items[checklist[i]].text]

\* ------------------------------------------------------------------------
\* Construction
\* ------------------------------------------------------------------------

Def(id, title) == [id |-> id, title |-> title]

\* no snapshot file on disk, no main_json call made, nothing returned
NoSnapshotFile == [exists |-> FALSE, stages |-> <<>>]
NoInvocation ==
  [payload |-> [command |-> "", parameters |-> [given |-> FALSE]],
   snapshot |-> NoSnapshotFile]
NoResult == [status |-> "none"]

\* the rows _build_ui creates
InitialItems(defs) ==
  [id \in DefIds(defs) |->
     LET title == (CHOOSE d \in {defs[i] : i \in 1..Len(defs)} : d.id = id).title
     IN [text |-> title \o <<" ", "-", " ">> \o S_pending,
         check |-> Unchecked]]

\* the state after ProgressBoardWidget.__init__ and run_progress_board's
\* set-up, for the given stage definitions and index files
InitWith(defs, fs) ==
  /\ stage_definitions = defs
  /\ construction_definitions = defs
  /\ items = InitialItems(defs)
  /\ checklist = [i \in 1..Len(defs) |-> defs[i].id]
  /\ completion_triggered = FALSE
  /\ repo_index_cache = <<>>
  /\ checklist_selection = IF Len(defs) > 0 THEN defs[1].id ELSE NoStage
  /\ selected_stage_id = IF Len(defs) > 0 THEN defs[1].id ELSE NoStage
  /\ detail_rows = <<>>
  /\ status_label = Initializing
  /\ timer_active = TRUE
  /\ worker_done = FALSE
  /\ files = fs
  /\ close_pending = FALSE
  /\ window_closed = FALSE
  /\ close_event_seen = FALSE
  /\ emitted = 0
  /\ completion_stops = 0
  /\ close_scheduled = 0
  /\ last_present = <<>>
  /\ outcome = "none"
  /\ all_done = FALSE
  /\ reads = {}
  /\ seen = {}
  /\ poll_tick = FALSE
  /\ completion_call_tick = FALSE
  /\ snapshot_file = NoSnapshotFile
  /\ invocation = NoInvocation
  /\ result = NoResult
  /\ launches = 0

\* ------------------------------------------------------------------------
\* _update_from_snapshot
\* ------------------------------------------------------------------------

\* the first loop ignores every stage
DiscoverFrom_Never(tracked, stages, i) == tracked

\* the first loop puts the stages it discovers in front of the definitions
\* it already has
DiscoverFrom_Prepend(tracked, stages, i) ==
  LET new == SelectSeq(SubSeq(stages, i, Len(stages)),
                       LAMBDA st : st.stage_id \notin tracked.keys)
  IN [defs |-> [k \in 1..Len(new) |-> Def(new[k].stage_id, new[k].title)]
                 \o tracked.defs,
      rows |-> tracked.rows \o [k \in 1..Len(new) |-> new[k].stage_id],
      keys |-> tracked.keys \cup {new[k].stage_id : k \in 1..Len(new)}]

RECURSIVE DiscoverFrom(_, _, _)
\* the first loop from the i-th stage on: a stage whose id has no item gets
\* an item, which becomes the last row of the checklist, and is appended to
\* _stage_definitions; tracked holds the definitions, the row ids and the
\* keys of _items
DiscoverFrom(tracked, stages, i) ==
  IF i > Len(stages) THEN tracked
  ELSE IF stages[i].stage_id \in tracked.keys
    THEN DiscoverFrom(tracked, stages, i + 1)
    ELSE DiscoverFrom(
           [defs |-> Append(tracked.defs,
                            Def(stages[i].stage_id, stages[i].title)),
            rows |-> Append(tracked.rows, stages[i].stage_id),
            keys |-> tracked.keys \cup {stages[i].stage_id}],
           stages, i + 1)

\* stages.get(stage_id) with the getattr defaults of a missing stage
StatusOf(stages, id) ==
  IF id \in StageIdsOf(stages)
    THEN (CHOOSE st \in {stages[i] : i \in 1..Len(stages)} :
            st.stage_id = id).status
    ELSE S_pending

MessagesOf(stages, id) ==
  IF id \in StageIdsOf(stages)
    THEN (CHOOSE st \in {stages[i] : i \in 1..Len(stages)} :
            st.stage_id = id).messages
    ELSE <<>>

\* the second loop skips the definitions whose stage the snapshot lacks
AppliedStates_PresentOnly(defs, keys, stages) ==
  [id \in DefIds(defs) \cap keys \cap StageIdsOf(stages) |->
     LET title == (CHOOSE d \in {defs[i] : i \in 1..Len(defs)} : d.id = id).title
     IN ApplyStageState(title, StatusOf(stages, id), MessagesOf(stages, id))]

\* the second loop: the row of every definition whose id has an item is
\* rewritten
AppliedStates(defs, keys, stages) ==
  [id \in DefIds(defs) \cap keys |->
     LET title == (CHOOSE d \in {defs[i] : i \in 1..Len(defs)} : d.id = id).title
     IN ApplyStageState(title, StatusOf(stages, id), MessagesOf(stages, id))]

\* _update_from_snapshot, given the results of its loops (defs: the first
\* loop, applied: the second, refreshed: _refresh_stage_repo_details): the
\* new definitions, rows, aggregate, cache, detail table and banner; when
\* the index refresh raises, the statements after it are not reached
UpdateResult(stages, tracked, applied, refreshed) ==
  [defs |-> tracked.defs,
   rows |-> tracked.rows,
   items |-> [id \in tracked.keys |->
                IF id \in DOMAIN applied
                  THEN [text |-> applied[id].text, check |-> applied[id].check]
                ELSE IF id \in DOMAIN items THEN items[id]
                ELSE [text |-> <<>>, check |-> Unchecked]],
   all_done |-> \A id \in DOMAIN applied : applied[id].done,
   cache |-> refreshed.cache,
   reads |-> refreshed.reads,
   raised |-> refreshed.raised,
   detail |-> IF refreshed.raised THEN detail_rows
              ELSE DetailView(checklist_selection, refreshed.cache),
   label |-> IF refreshed.raised THEN status_label
             ELSE IF stages # <<>> /\ ~completion_triggered
               THEN IF \A id \in DOMAIN applied : applied[id].done
                      THEN AllReported ELSE Tracking
             ELSE status_label]

\* _update_from_snapshot; each loop is evaluated once
UpdateFromSnapshot(stages) ==
  CHOOSE u \in
    UNION {UNION {{UpdateResult(stages, tracked, applied, refreshed) :
                     refreshed \in {RefreshStageRepoDetails(
                                      repo_index_cache, stages, files)}} :
                  applied \in {AppliedStates(tracked.defs, tracked.keys,
                                             stages)}} :
           tracked \in {DiscoverFrom([defs |-> stage_definitions,
                                      rows |-> checklist,
                                      keys |-> DOMAIN items],
                                     stages, 1)}} : TRUE

\* ------------------------------------------------------------------------
\* Operations
\* ------------------------------------------------------------------------

\* the completion that leaves the poll timer running
CompletionEffects_TimerRuns ==
  /\ completion_triggered' = TRUE
  /\ timer_active' = timer_active
  /\ completion_stops' = completion_stops + 1
  /\ emitted' = emitted + 1
  /\ close_scheduled' = close_scheduled + 1
  /\ close_pending' = TRUE

\* _handle_completion called when completion was not triggered before: the
\* timer stops and board_completed is emitted, whose slot _finish arms the
\* single-shot close timer
CompletionEffects ==
  /\ completion_triggered' = TRUE
  /\ timer_active' = FALSE
  /\ completion_stops' = completion_stops + 1
  /\ emitted' = emitted + 1
  /\ close_scheduled' = close_scheduled + 1
  /\ close_pending' = TRUE

NoCompletionEffects ==
  UNCHANGED <<completion_triggered, timer_active, completion_stops, emitted,
              close_scheduled, close_pending>>

\* _handle_completion without its guard
HandleCompletion_Unguarded ==
  /\ completion_call_tick' = ~completion_call_tick
  /\ CompletionEffects

\* _handle_completion
HandleCompletion ==
  /\ completion_call_tick' = ~completion_call_tick
  /\ IF completion_triggered THEN NoCompletionEffects ELSE CompletionEffects

\* the worker-done check at the end of _refresh_snapshot
WorkerDoneCheck(label) ==
  IF worker_done /\ ~completion_triggered
    THEN /\ status_label' = ToolingFinished
         /\ HandleCompletion
    ELSE /\ status_label' = label
         /\ NoCompletionEffects
         /\ UNCHANGED completion_call_tick

\* _refresh_snapshot that treats an absent snapshot as one without stages
RefreshSnapshotOn_AbsentAsEmpty(snap) ==
  \E u \in {UpdateFromSnapshot(snap.stages)} :
     /\ stage_definitions' = u.defs
     /\ checklist' = u.rows
     /\ items' = u.items
     /\ all_done' = u.all_done
     /\ repo_index_cache' = u.cache
     /\ reads' = u.reads
     /\ detail_rows' = u.detail
     /\ last_present' = IF snap.present THEN snap.stages ELSE last_present
     /\ seen' = seen \cup StageIdsOf(snap.stages)
     /\ IF u.raised
          THEN /\ outcome' = "raised"
               /\ status_label' = u.label
               /\ NoCompletionEffects
               /\ UNCHANGED completion_call_tick
          ELSE /\ outcome' = IF snap.present THEN "updated" ELSE "absent"
               /\ WorkerDoneCheck(u.label)

\* _refresh_snapshot on a timer timeout, the snapshot file holding snap
RefreshSnapshotOn(snap) ==
  IF ~snap.present
    THEN /\ status_label' = IF ~completion_triggered THEN WaitingFeed
                            ELSE status_label
         /\ outcome' = "absent"
         /\ NoCompletionEffects
         /\ UNCHANGED <<stage_definitions, items, checklist,
                        repo_index_cache, detail_rows, last_present,
                        all_done, reads, seen, completion_call_tick>>
    ELSE \E u \in {UpdateFromSnapshot(snap.stages)} :
            /\ stage_definitions' = u.defs
            /\ checklist' = u.rows
            /\ items' = u.items
            /\ all_done' = u.all_done
            /\ repo_index_cache' = u.cache
            /\ reads' = u.reads
            /\ detail_rows' = u.detail
            /\ last_present' = snap.stages
            /\ seen' = seen \cup StageIdsOf(snap.stages)
            /\ IF u.raised
                 THEN /\ outcome' = "raised"
                      /\ status_label' = u.label
                      /\ NoCompletionEffects
                      /\ UNCHANGED completion_call_tick
                 ELSE /\ outcome' = "updated"
                      /\ WorkerDoneCheck(u.label)

\* the poll timer fires
RefreshSnapshot(universe) ==
  /\ timer_active
  /\ poll_tick' = ~poll_tick
  /\ \E snap \in universe \cup {Absent} : RefreshSnapshotOn(snap)
  /\ UNCHANGED <<selected_stage_id, checklist_selection, worker_done, files,
                 window_closed, close_event_seen, construction_definitions,
                 entry_vars>>

\* _handle_completion called directly
HandleCompletionCall ==
  /\ HandleCompletion
  /\ UNCHANGED <<stage_definitions, items, checklist, repo_index_cache,
                 selected_stage_id, checklist_selection, detail_rows,
                 status_label, worker_done, files, window_closed,
                 close_event_seen, construction_definitions, last_present,
                 outcome, all_done, reads, seen, poll_tick, entry_vars>>

\* _handle_stage_selection: the user selects a row of the checklist or
\* clears the selection
HandleStageSelection ==
  /\ \E sel \in DOMAIN items \cup {NoStage} :
       /\ sel # checklist_selection
       /\ checklist_selection' = sel
       /\ selected_stage_id' = sel
       /\ detail_rows' = DetailView(sel, repo_index_cache)
  /\ UNCHANGED <<stage_definitions, items, checklist, completion_triggered,
                 repo_index_cache, status_label, timer_active, worker_done,
                 files, host_vars, ghost_vars, entry_vars>>

\* closeEvent that stops the timer only after completion
CloseEvent_AfterCompletionOnly ==
  /\ timer_active' = (timer_active /\ ~completion_triggered)
  /\ close_event_seen' = TRUE
  /\ UNCHANGED <<stage_definitions, items, checklist, completion_triggered,
                 repo_index_cache, selected_stage_id, checklist_selection,
                 detail_rows, status_label, worker_done, files,
                 close_pending, window_closed, ghost_vars, entry_vars>>

\* closeEvent
CloseEvent ==
  /\ timer_active' = FALSE
  /\ close_event_seen' = TRUE
  /\ UNCHANGED <<stage_definitions, items, checklist, completion_triggered,
                 repo_index_cache, selected_stage_id, checklist_selection,
                 detail_rows, status_label, worker_done, files,
                 close_pending, window_closed, ghost_vars, entry_vars>>

\* the single-shot timer of _finish fires: window.close()
AutoClose ==
  /\ close_pending
  /\ close_pending' = FALSE
  /\ window_closed' = TRUE
  /\ UNCHANGED <<widget_vars, worker_done, files, close_event_seen,
                 ghost_vars, entry_vars>>

\* the worker thread sets the worker-done event
WorkerFinish ==
  /\ ~worker_done
  /\ worker_done' = TRUE
  /\ UNCHANGED <<widget_vars, files, host_vars, ghost_vars, entry_vars>>

\* the external writer replaces an index file; time does not run backwards
WriteIndexFile ==
  /\ \E content \in FileContents :
     \E mtime \in 1..MaxMtime :
       /\ mtime >= files[IndexPath1].mtime
       /\ File(mtime, content) # files[IndexPath1]
       /\ files' = [files EXCEPT ![IndexPath1] = File(mtime, content)]
  /\ UNCHANGED <<widget_vars, worker_done, host_vars, ghost_vars,
                 entry_vars>>

\* an index file is removed
RemoveIndexFile ==
  /\ files[IndexPath1].exists
  /\ files' = [files EXCEPT
                 ![IndexPath1] = [Missing EXCEPT !.mtime = files[IndexPath1].mtime]]
  /\ UNCHANGED <<widget_vars, worker_done, host_vars, ghost_vars,
                 entry_vars>>

\* ------------------------------------------------------------------------
\* Invocation entry point: main_json and its JSON contracts
\* ------------------------------------------------------------------------

\* the const of INPUT_SCHEMA's command
Command == "x_make_progress_board_x"

SchemaVersion == "x_make_progress_board_x.run/1.0"

\* the indication a validation failure message carries
ValidationFailed == "input payload failed validation"

S_environment == <<"e","n","v","i","r","o","n","m","e","n","t">>

\* the stage used when neither the snapshot nor the payload names one
DefaultFallbackStage == Def(S_environment, Capitalize(S_environment))

\* an optional key of a JSON object that is not given
NotGiven == [given |-> FALSE]

\* a given value of an optional key
Given(value) == [given |-> TRUE, value |-> value]

\* the parameters object of a payload
Parameters(path, definitions, fallback, launch) ==
  [given |-> TRUE, snapshot_path |-> path, stage_definitions |-> definitions,
   fallback_stage |-> fallback, launch |-> launch]

\* a command payload
Payload(command, parameters) ==
  [command |-> command, parameters |-> parameters]

\* _STAGE_DEFINITION_IN: id is a string of minLength 1
ValidStageDefinitionIn(definition) == definition.id # <<>>

\* _PARAMETERS_SCHEMA
ValidParameters(ps) ==
  /\ ps.snapshot_path # <<>>
  /\ ps.stage_definitions.given =>
       \A i \in 1..Len(ps.stage_definitions.value) :
         ValidStageDefinitionIn(ps.stage_definitions.value[i])
  /\ ps.fallback_stage.given => ValidStageDefinitionIn(ps.fallback_stage.value)

\* INPUT_SCHEMA that validates the parameters and not the command
ValidInput_CommandUnchecked(payload) ==
  payload.parameters.given /\ ValidParameters(payload.parameters)

\* INPUT_SCHEMA: command is the const, parameters are optional
ValidInput(payload) ==
  /\ payload.command = Command
  /\ payload.parameters.given => ValidParameters(payload.parameters)

\* the failure payload of a payload that does not validate
FailureResult == [status |-> "failure", message |-> <<ValidationFailed>>]

\* the id/title pairs of a snapshot's stages, in the snapshot's order
SnapshotDefinitions(stages) ==
  [i \in 1..Len(stages) |-> Def(stages[i].stage_id, stages[i].title)]

\* the stage definitions of a valid invocation: the snapshot's when the file
\* exists, else the payload's, else the fallback stage
ResolveStageDefinitions(ps, snap) ==
  IF snap.exists THEN SnapshotDefinitions(snap.stages)
  ELSE IF ps.stage_definitions.given /\ ps.stage_definitions.value # <<>>
    THEN ps.stage_definitions.value
  ELSE IF ps.fallback_stage.given THEN <<ps.fallback_stage.value>>
  ELSE <<DefaultFallbackStage>>

\* the fallback stage was substituted
FallbackApplied(ps, snap) ==
  /\ ~snap.exists
  /\ ~(ps.stage_definitions.given /\ ps.stage_definitions.value # <<>>)

\* the payload asks for the board to be launched
LaunchRequested(ps) == ps.launch.given /\ ps.launch.value

\* a success payload that reports the first definition only
SuccessResult_FirstStageOnly(ps, snap) ==
  LET definitions == SubSeq(ResolveStageDefinitions(ps, snap), 1, 1)
  IN [status |-> "success",
      schema_version |-> SchemaVersion,
      snapshot_path |-> ps.snapshot_path,
      stage_definitions |-> definitions,
      metadata |-> [snapshot_exists |-> snap.exists,
                    fallback_applied |-> FallbackApplied(ps, snap),
                    launched |-> LaunchRequested(ps),
                    stage_count |-> Len(definitions)]]

\* a success payload that never reports the fallback
SuccessResult_NoFallbackFlag(ps, snap) ==
  LET definitions == ResolveStageDefinitions(ps, snap)
  IN [status |-> "success",
      schema_version |-> SchemaVersion,
      snapshot_path |-> ps.snapshot_path,
      stage_definitions |-> definitions,
      metadata |-> [snapshot_exists |-> snap.exists,
                    fallback_applied |-> FALSE,
                    launched |-> LaunchRequested(ps),
                    stage_count |-> Len(definitions)]]

\* the success payload of a valid invocation
SuccessResult(ps, snap) ==
  LET definitions == ResolveStageDefinitions(ps, snap)
  IN [status |-> "success",
      schema_version |-> SchemaVersion,
      snapshot_path |-> ps.snapshot_path,
      stage_definitions |-> definitions,
      metadata |-> [snapshot_exists |-> snap.exists,
                    fallback_applied |-> FallbackApplied(ps, snap),
                    launched |-> LaunchRequested(ps),
                    stage_count |-> Len(definitions)]]

\* what main_json returns for a payload, the snapshot file being snap
MainJsonResult(payload, snap) ==
  IF ~ValidInput(payload) THEN FailureResult
  ELSE SuccessResult(payload.parameters, snap)

\* inputs of main_json
SnapshotPath == <<"p",".","j","s","o","n">>
S_gamma == <<"g","a","m","m","a">>
S_unexpected == "unexpected"

StageDefinitionInputs ==
  {NotGiven,
   Given(<<Def(S_gamma, Capitalize(S_gamma))>>),
   Given(<<Def(<<>>, T_Beta)>>)}

FallbackInputs == {NotGiven, Given(Def(S_beta, T_Beta))}

LaunchInputs == {NotGiven, Given(FALSE), Given(TRUE)}

Payloads ==
  {Payload(c, Parameters(SnapshotPath, d, f, l)) :
     c \in {Command, S_unexpected}, d \in StageDefinitionInputs,
     f \in FallbackInputs, l \in LaunchInputs}
    \cup {Payload(S_unexpected, NotGiven)}

\* the stages of the snapshot files
SnapshotFileStages ==
  {<<Stage(S_alpha, T_Alpha, S_pending, <<>>, NoPath)>>,
   <<Stage(S_alpha, T_Alpha, S_pending, <<>>, NoPath),
     Stage(S_beta, T_Beta, S_pending, <<>>, NoPath)>>,
   <<Stage(S_beta, T_Beta, S_pending, <<>>, NoPath),
     Stage(S_alpha, T_Alpha, S_pending, <<>>, NoPath)>>}

\* the board's own state, which these operations do not touch
board_vars == <<widget_vars, worker_done, files, host_vars, ghost_vars>>

\* main_json is called with a payload; payloads that give stage definitions
\* while the snapshot file exists are not drawn
MainJson ==
  \E payload \in Payloads :
    /\ ~(/\ snapshot_file.exists
         /\ payload.parameters.given
         /\ payload.parameters.stage_definitions.given)
    /\ \E r \in {MainJsonResult(payload, snapshot_file)} :
         /\ result' = r
         /\ launches' = IF r.status = "success" /\ r.metadata.launched
                          THEN launches + 1 ELSE launches
         /\ launches' <= MaxLaunches
    /\ invocation' = [payload |-> payload, snapshot |-> snapshot_file]
    /\ UNCHANGED <<snapshot_file, board_vars>>

\* the orchestrator writes the snapshot file
WriteSnapshotFile ==
  /\ \E stages \in SnapshotFileStages :
       /\ snapshot_file # [exists |-> TRUE, stages |-> stages]
       /\ snapshot_file' = [exists |-> TRUE, stages |-> stages]
  /\ UNCHANGED <<invocation, result, launches, board_vars>>

\* the snapshot file is removed
RemoveSnapshotFile ==
  /\ snapshot_file.exists
  /\ snapshot_file' = NoSnapshotFile
  /\ UNCHANGED <<invocation, result, launches, board_vars>>

\* ------------------------------------------------------------------------
\* Specifications
\* ------------------------------------------------------------------------

\* the stage definitions the board is constructed with
InitDefs == {<<>>, <<Def(S_beta, T_Build)>>}

\* the index files while the checklist is studied: one file, a JSON array
BoardFiles ==
  (IndexPath1 :> File(1, JsonArray)) @@ (IndexPath2 :> Missing)

Init == \E defs \in InitDefs : InitWith(defs, BoardFiles)

Next ==
  \/ RefreshSnapshot(BoardSnapshots)
  \/ HandleCompletionCall
  \/ HandleStageSelection
  \/ CloseEvent
  \/ AutoClose
  \/ WorkerFinish

Spec == Init /\ [][Next]_vars

\* the event loop delivers an armed single-shot timer
FairSpec == Spec /\ WF_vars(AutoClose)

\* status strings: eight words, each as written, upper-cased and
\* capitalized, each bare and padded with whitespace, and a blank string
StatusWords ==
  {S_completed, S_attention, S_blocked, S_running, S_pending, S_failed,
   S_done, S_queued}

CaseVariants(w) == {w, Upper(w), Capitalize(w)}

PadVariants(w) ==
  {w, <<" ">> \o w, w \o <<" ">>, <<"\t">> \o w \o <<"\n">>}

Variants(w) == UNION {PadVariants(c) : c \in CaseVariants(w)}

StatusInputs == UNION {Variants(w) : w \in StatusWords} \cup {<<" ">>}

\* snapshots of one stage whose status is any of the status strings
StatusSnapshots ==
  {[present |-> TRUE,
    stages |-> <<Stage(S_alpha, T_Alpha, st, <<>>, NoPath)>>] :
     st \in StatusInputs}

StatusInit == InitWith(<<Def(S_alpha, T_Alpha)>>, BoardFiles)

StatusNext ==
  \/ RefreshSnapshot(StatusSnapshots)
  \/ WorkerFinish

\* the board polling snapshots of one stage, for every status string
StatusSpec == StatusInit /\ [][StatusNext]_vars

\* the index files while the cache is studied
CacheInit ==
  InitWith(<<Def(S_alpha, T_Alpha), Def(S_beta, T_Beta)>>,
           (IndexPath1 :> Missing) @@ (IndexPath2 :> File(1, ObjectB)))

CacheNext ==
  \/ RefreshSnapshot(CacheSnapshots)
  \/ HandleStageSelection
  \/ WorkerFinish
  \/ WriteIndexFile
  \/ RemoveIndexFile

CacheSpec == CacheInit /\ [][CacheNext]_vars

\* snapshots in which either stage may point at either index file
FailSafeSnapshots ==
  SnapshotsOf(
    {Stage(S_alpha, T_Alpha, S_pending, <<>>, p) :
       p \in {NoPath, IndexPath1, IndexPath2}},
    {Stage(S_beta, T_Beta, S_pending, <<>>, p) :
       p \in {NoPath, IndexPath1, IndexPath2}})

\* one index file that the writer replaces and one that holds a JSON array
FailSafeInit ==
  InitWith(<<Def(S_alpha, T_Alpha), Def(S_beta, T_Beta)>>,
           (IndexPath1 :> Missing) @@ (IndexPath2 :> File(1, JsonArray)))

FailSafeNext ==
  \/ RefreshSnapshot(FailSafeSnapshots)
  \/ HandleStageSelection
  \/ WriteIndexFile
  \/ RemoveIndexFile

\* the board polling while one stage's index file changes and the other
\* stage's index file is a JSON array
FailSafeSpec == FailSafeInit /\ [][FailSafeNext]_vars

\* snapshots that vary the status of both stages and the index path of alpha
FrameSnapshots ==
  SnapshotsOf(
    {Stage(S_alpha, T_Alpha, st, <<>>, p) :
       st \in {S_pending, Capitalize(S_completed)},
       p \in {NoPath, IndexPath2}},
    {Stage(S_beta, T_Beta, st, <<M_ok>>, NoPath) :
       st \in {S_running, S_blocked}})

\* beta is known at construction; the index files do not change
FrameInit ==
  InitWith(<<Def(S_beta, T_Build)>>,
           (IndexPath1 :> Missing) @@ (IndexPath2 :> File(1, ObjectB)))

FrameNext ==
  \/ RefreshSnapshot(FrameSnapshots)
  \/ HandleStageSelection
  \/ HandleCompletionCall
  \/ WorkerFinish

\* the board polling snapshots that come and go while the index files stay
\* as they are
FrameSpec == FrameInit /\ [][FrameNext]_vars

InvokeInit == InitWith(<<>>, BoardFiles)

InvokeNext ==
  \/ MainJson
  \/ WriteSnapshotFile
  \/ RemoveSnapshotFile

\* main_json called again and again while the snapshot file comes and goes
InvokeSpec == InvokeInit /\ [][InvokeNext]_vars

\* the messages of the message logs: empty, blank, plain and padded
MessageTexts ==
  {<<>>, <<" ">>, <<" ">> \o M_ok \o <<"\n">>, S_done}

RECURSIVE SeqsUpTo(_, _)
\* the sequences of at most n elements of set
SeqsUpTo(set, n) ==
  IF n = 0 THEN {<<>>}
  ELSE LET shorter == SeqsUpTo(set, n - 1)
       IN shorter \cup {Append(q, x) : q \in shorter, x \in set}

\* snapshots of one running stage, for every message log
SuffixSnapshots ==
  {[present |-> TRUE,
    stages |-> <<Stage(S_alpha, T_Alpha, S_running, ms, NoPath)>>] :
     ms \in SeqsUpTo(MessageTexts, MaxMessages)}

SuffixInit == InitWith(<<Def(S_alpha, T_Alpha)>>, BoardFiles)

SuffixNext == RefreshSnapshot(SuffixSnapshots)

\* the board polling snapshots of one stage, for every message log
SuffixSpec == SuffixInit /\ [][SuffixNext]_vars

\* message_preview values: missing, a string, a blank string, a list with
\* blank and padded strings, an empty list
PreviewInputs ==
  {[kind |-> "none"],
   [kind |-> "str", text |-> M_ok],
   [kind |-> "str", text |-> <<" ">>],
   [kind |-> "list", items |-> << <<" ">>, <<" ">> \o M_ok, <<>> >>],
   [kind |-> "list", items |-> <<>>]}

\* raw entries with every key given or missing
RawEntryInputs ==
  {RawEntry(repo_id, display_name, status, preview) :
     repo_id \in {<<>>, R_one}, display_name \in {<<>>, T_Alpha},
     status \in {<<>>, S_done}, preview \in PreviewInputs}

\* an index payload that is an object with the given entries value
ObjectOf(entries) ==
  [kind |-> "object", entries_dir |-> <<>>, entries |-> entries]

\* index payloads: one raw entry each, entries mixed with values that are
\* not objects, and an entries value that is not a list
NormalizeContents ==
  {ObjectOf([islist |-> TRUE, items |-> <<e>>]) : e \in RawEntryInputs}
    \cup {ObjectOf([islist |-> TRUE, items |-> <<NotADict, e, NotADict, e>>]) :
            e \in {RawEntry(<<>>, <<>>, <<>>, [kind |-> "none"]),
                   RawEntry(R_two, T_Beta, S_running,
                            [kind |-> "str", text |-> M_ok])}}
    \cup {ObjectOf([islist |-> FALSE, items |-> <<>>]),
          ObjectOf([islist |-> TRUE, items |-> <<NotADict>>])}

\* snapshots of stage alpha, with or without the index file
NormalizeSnapshots ==
  SnapshotsOf({Stage(S_alpha, T_Alpha, S_pending, <<>>, p) :
                 p \in {NoPath, IndexPath1}}, {})

\* the index file holds any of the payloads
NormalizeInit ==
  \E content \in NormalizeContents :
    InitWith(<<Def(S_alpha, T_Alpha)>>,
             (IndexPath1 :> File(1, content)) @@ (IndexPath2 :> Missing))

NormalizeNext ==
  \/ RefreshSnapshot(NormalizeSnapshots)
  \/ HandleStageSelection

\* the board reading one index file, for every payload
NormalizeSpec == NormalizeInit /\ [][NormalizeNext]_vars

\* ------------------------------------------------------------------------
\* Claims
\* ------------------------------------------------------------------------

\* C1: completion is idempotent. Whenever completion has been triggered,
\* board_completed was emitted exactly once and _handle_completion stopped
\* the timer exactly once (and neither happened before); a call of
\* _handle_completion after the first changes no state of the widget or of
\* its host.
C1_CompletionIdempotent ==
  /\ [](/\ emitted = (IF completion_triggered THEN 1 ELSE 0)
        /\ completion_stops = (IF completion_triggered THEN 1 ELSE 0))
  /\ [][(completion_triggered
           /\ completion_call_tick' # completion_call_tick)
          => UNCHANGED <<widget_vars, host_vars, worker_done, files, emitted,
                         completion_stops, close_scheduled>>]_vars

\* C1 witness: the handler was called again after completion
C1_Witness ==
  /\ completion_triggered
  /\ ~completion_call_tick
  /\ emitted = 1
  /\ completion_stops = 1

\* C2: every poll that finds the worker-done flag set while completion is
\* not yet triggered triggers completion (timer stopped, notification
\* emitted), whether the snapshot it read was present or absent.
C2_DoneCheckOnEveryPoll ==
  [][(poll_tick' # poll_tick /\ worker_done /\ ~completion_triggered)
       => (/\ completion_triggered'
           /\ ~timer_active'
           /\ emitted' = emitted + 1)]_vars

\* C3: the poll loop only moves forward. Once completion is triggered it
\* stays triggered, the timer stays stopped, no poll runs and the checklist,
\* the definitions, the cache and the banner stay as they are; the close of
\* the host window is scheduled at most once, and every completion
\* notification is eventually followed by the window being closed.
C3_ForwardOnly ==
  /\ [](completion_triggered => ~timer_active)
  /\ [][completion_triggered
          => (/\ completion_triggered'
              /\ ~timer_active'
              /\ poll_tick' = poll_tick
              /\ UNCHANGED <<items, stage_definitions, repo_index_cache,
                             status_label>>)]_vars
  /\ [](close_scheduled <= 1)
  /\ ((emitted > 0) ~> window_closed)

\* C3 witness: completion was triggered by a poll and the window was closed
C3_Witness ==
  /\ completion_triggered
  /\ status_label = ToolingFinished
  /\ close_scheduled = 1
  /\ window_closed

\* C4: the close event stops the poll timer whether or not completion was
\* triggered, and after it no poll runs, so the checklist, the cache, the
\* detail table and the banner are not refreshed any more.
C4_CloseStopsTimer ==
  [][close_event_seen'
       => (/\ ~timer_active'
           /\ close_event_seen
                => (/\ poll_tick' = poll_tick
                    /\ UNCHANGED <<items, stage_definitions,
                                   repo_index_cache, status_label>>))]_vars

\* C4 witness: the widget was closed while polling, completion never having
\* been triggered although the worker is done
C4_Witness ==
  /\ close_event_seen
  /\ ~completion_triggered
  /\ worker_done
  /\ outcome = "updated"

\* C5: the checklist has a row for every construction-time stage id and for
\* every stage id of every snapshot polled so far.
C5_ChecklistSuperset ==
  DefIds(construction_definitions) \cup seen \subseteq DOMAIN items

\* C5 witness: alpha was discovered by a poll, was selected, and is missing
\* from the latest snapshot; beta comes from the constructor
C5_Witness ==
  /\ S_alpha \in seen
  /\ outcome = "updated"
  /\ S_alpha \notin StageIdsOf(last_present)
  /\ S_beta \in DefIds(construction_definitions)
  /\ checklist_selection = S_alpha

\* the status shown for a tracked stage: the snapshot's, "pending" when the
\* stage is missing from the snapshot or its status is empty
ShownStatus(stages, id) ==
  IF StatusOf(stages, id) = <<>> THEN S_pending ELSE StatusOf(stages, id)

\* completed, attention or blocked, in any letter case
IsDoneStatus(status) ==
  \E w \in DONE_STATUSES : Len(status) = Len(w)
     /\ \A i \in 1..Len(w) : status[i] \in {w[i], UpperChar(w[i])}

\* the row of a stage id in the checklist
RowOf(id) == CHOOSE r \in 1..Len(checklist) : checklist[r] = id

\* the display texts and the aggregate after a poll with a present snapshot
C6_TextsAndAggregate ==
  /\ \A i \in 1..Len(stage_definitions) :
       LET id == stage_definitions[i].id
       IN items[id].text =
            stage_definitions[i].title \o <<" ", "-", " ">>
              \o ShownStatus(last_present, id)
              \o MessageSuffix(MessagesOf(last_present, id))
  /\ all_done <=> \A id \in DOMAIN items :
                    IsDoneStatus(ShownStatus(last_present, id))

\* every stage of the latest snapshot is pending
AllPending == \A i \in 1..Len(last_present) : last_present[i].status = S_pending

\* C6 (as stated): after a poll with a present snapshot every tracked
\* stage's text is "{title} - {status}" plus the message suffix and the
\* all-done flag is true iff every tracked stage has a done status; for a
\* snapshot whose stages are all pending there is one row "{title} - pending"
\* per stage, the rows following the snapshot's order, and the flag is false.
C6_RowsInSnapshotOrder ==
  outcome \in {"updated", "raised"} =>
    /\ C6_TextsAndAggregate
    /\ (AllPending /\ last_present # <<>>) =>
         /\ \A i \in 1..Len(last_present) :
              /\ last_present[i].stage_id \in DOMAIN items
              /\ Cardinality({r \in 1..Len(checklist) :
                                checklist[r] = last_present[i].stage_id}) = 1
         /\ \A i, j \in 1..Len(last_present) :
              i < j => RowOf(last_present[i].stage_id)
                         < RowOf(last_present[j].stage_id)
         /\ ~all_done

\* C6 (amended): as above, but the rows follow the stage-definition list
\* (construction-time stages first, then stages in the order they were
\* discovered), which need not be the snapshot's order.
C6_RowsInDefinitionOrder ==
  outcome \in {"updated", "raised"} =>
    /\ C6_TextsAndAggregate
    /\ (AllPending /\ last_present # <<>>) =>
         /\ \A i \in 1..Len(last_present) :
              /\ last_present[i].stage_id \in DOMAIN items
              /\ Cardinality({r \in 1..Len(checklist) :
                                checklist[r] = last_present[i].stage_id}) = 1
         /\ checklist = [r \in 1..Len(stage_definitions) |->
                           stage_definitions[r].id]
         /\ \A r \in 1..Len(checklist) :
              checklist[r] \in StageIdsOf(last_present) =>
                ChecklistRows[r] =
                  stage_definitions[r].title \o <<" ", "-", " ">> \o S_pending
                    \o MessageSuffix(MessagesOf(last_present, checklist[r]))
         /\ ~all_done

\* C6 witness: a poll of two pending stages, beta tracked since construction
\* and alpha discovered, so that the rows are beta, alpha
C6_Witness ==
  /\ outcome = "updated"
  /\ AllPending
  /\ Len(last_present) = 2
  /\ checklist = <<S_beta, S_alpha>>
  /\ ChecklistRows[1] = T_Build \o <<" ", "-", " ">> \o S_pending

\* C6 second witness: every tracked stage is done and the flag is true
C6_WitnessAllDone ==
  /\ outcome = "updated"
  /\ all_done
  /\ Len(last_present) = 2
  /\ status_label = AllReported

\* Qt check states as the markers of the checklist; in-progress and
\* indeterminate are the same partially-checked state
MarkerDone == Checked
MarkerInProgress == PartiallyChecked
MarkerNotStarted == Unchecked
MarkerIndeterminate == PartiallyChecked

\* the status and the marker of the one stage of the status inputs
PolledStatus == last_present[1].status
PolledMarker == items[S_alpha].check

\* C7 (as stated): completed, attention and blocked in any letter case are
\* marked done, "running" in-progress, "pending" not started and any other
\* non-empty string indeterminate.
C7_MarkerOfStatusAsWritten ==
  (outcome = "updated" /\ Len(last_present) = 1 /\ PolledStatus # <<>>) =>
    PolledMarker =
      (IF IsDoneStatus(PolledStatus) THEN MarkerDone
       ELSE IF PolledStatus = S_running THEN MarkerInProgress
       ELSE IF PolledStatus = S_pending THEN MarkerNotStarted
       ELSE MarkerIndeterminate)

\* the marker of a status word
MarkerOfWord(w) ==
  IF w \in {S_completed, S_attention, S_blocked} THEN MarkerDone
  ELSE IF w = S_running THEN MarkerInProgress
  ELSE IF w = S_pending THEN MarkerNotStarted
  ELSE MarkerIndeterminate

\* C7 (amended): the status is classified without regard to letter case and
\* to surrounding whitespace: every spelling of completed, attention and
\* blocked is marked done, of running in-progress, of pending not started,
\* and any other non-empty string indeterminate.
C7_MarkerOfStatusNormalized ==
  (outcome = "updated" /\ Len(last_present) = 1 /\ PolledStatus # <<>>) =>
    /\ \A w \in StatusWords :
         PolledStatus \in Variants(w) => PolledMarker = MarkerOfWord(w)
    /\ (\A w \in StatusWords : PolledStatus \notin Variants(w))
         => PolledMarker = MarkerIndeterminate

\* C7 witness: an upper-case, padded "pending" was polled and is shown as
\* not started
C7_Witness ==
  /\ outcome = "updated"
  /\ Len(last_present) = 1
  /\ PolledStatus = <<"\t">> \o Upper(S_pending) \o <<"\n">>
  /\ PolledMarker = MarkerNotStarted

\* the index path a stage of a snapshot declares
IndexPathOf(stage) == stage.metadata.repo_progress_index_path

\* the cache entry a fresh read of the index file at path yields
FreshEntry(path) ==
  [path |-> path,
   mtime |-> files[path].mtime,
   entries |-> NormalizeRepoEntries(
                 files[path].content.entries,
                 OrElse(files[path].content.entries_dir, Parent(path)))]

\* what a poll does for one observed stage whose index file can be stat-ed:
\* a cached entry of the same modification time is kept and the file is not
\* read; otherwise the file is read and the entry becomes the fresh result
\* (no entry when the file holds no JSON object)
KeyedByMtime(stage) ==
  LET id == stage.stage_id
      path == IndexPathOf(stage)
  IN IF id \in DOMAIN repo_index_cache
        /\ repo_index_cache[id].mtime = files[path].mtime
       THEN /\ id \notin reads'
            /\ id \in DOMAIN repo_index_cache'
            /\ repo_index_cache'[id] = repo_index_cache[id]
       ELSE /\ id \in reads'
            /\ IF files[path].content.kind = "object"
                 THEN /\ id \in DOMAIN repo_index_cache'
                      /\ repo_index_cache'[id] = FreshEntry(path)
                 ELSE id \notin DOMAIN repo_index_cache'

\* a step that is a poll with a present snapshot
PresentPoll == poll_tick' # poll_tick /\ outcome' \in {"updated", "raised"}

\* C8: on a poll, a stage whose index file has the modification time of the
\* stage's cached entry keeps that entry and the file is not read; when the
\* modification time differs, or nothing is cached, the file is read and the
\* cache entry is replaced by the new result.
C8_CacheKeyedByMtime ==
  [][PresentPoll =>
       \A i \in 1..Len(last_present') :
         (IndexPathOf(last_present'[i]) # NoPath
            /\ SafeStat(files, IndexPathOf(last_present'[i])))
           => KeyedByMtime(last_present'[i])]_vars

\* C9: after a poll with a present snapshot the cache has no entry for a
\* stage id that is not in that snapshot.
C9_StaleEntriesEvicted ==
  outcome \in {"updated", "raised"} =>
    DOMAIN repo_index_cache \subseteq StageIdsOf(last_present)

\* C10: after a poll, the cache has no entry for an observed stage whose
\* metadata has no index path or whose index file cannot be stat-ed,
\* whatever entry it held before.
C10_NoPathOrNoStatClears ==
  [][PresentPoll =>
       \A i \in 1..Len(last_present') :
         (IndexPathOf(last_present'[i]) = NoPath
            \/ ~SafeStat(files, IndexPathOf(last_present'[i])))
           => last_present'[i].stage_id \notin DOMAIN repo_index_cache']_vars

\* the index file at path cannot be stat-ed or read, or its text is not JSON
Unreadable(path) ==
  ~SafeStat(files, path) \/ files[path].content.kind = "undecodable"

\* C11: fail safe to no data shown. After a poll, a stage of the snapshot
\* whose index file cannot be read or decoded has no cache entry, and when
\* that stage is the selected one the detail table has no row.
C11_FailSafeNoData ==
  [][PresentPoll =>
       \A i \in 1..Len(last_present') :
         (IndexPathOf(last_present'[i]) # NoPath
            /\ Unreadable(IndexPathOf(last_present'[i])))
           => /\ last_present'[i].stage_id \notin DOMAIN repo_index_cache'
              /\ checklist_selection = last_present'[i].stage_id
                   => detail_rows' = <<>>]_vars

\* C12: recoverable conditions never interrupt the poll loop. Whatever the
\* index files hold, a poll with a present snapshot runs to its end: no
\* exception leaves it, the detail table shows the selected stage's cached
\* entries, the banner is refreshed and the worker-done check is performed
\* (a set worker-done flag triggers completion on that tick).
C12_PollRunsToItsEnd ==
  [][PresentPoll =>
       /\ outcome' = "updated"
       /\ detail_rows' = DetailView(checklist_selection, repo_index_cache')
       /\ (worker_done /\ ~completion_triggered)
            => (completion_triggered' /\ status_label' = ToolingFinished)
       /\ (~worker_done /\ ~completion_triggered /\ last_present' # <<>>)
            => status_label' \in {AllReported, Tracking}]_vars

\* the cached entries of the selected stage, none when no stage is selected
\* or the selected stage has no cache entry
SelectedEntries ==
  IF checklist_selection = NoStage THEN <<>>
  ELSE IF checklist_selection \notin DOMAIN repo_index_cache THEN <<>>
  ELSE repo_index_cache[checklist_selection].entries

\* C13: in every state the detail table has exactly one row per cached
\* entry of the selected stage, showing that entry's name and status, and
\* no row when no stage is selected or the selected stage has no cache entry.
C13_DetailRowsOfSelection ==
  /\ Len(detail_rows) = Len(SelectedEntries)
  /\ \A r \in 1..Len(detail_rows) :
       /\ detail_rows[r].display = SelectedEntries[r].display_name
       /\ detail_rows[r].status = SelectedEntries[r].status

\* a step that is a poll which found the snapshot absent
AbsentPoll == poll_tick' # poll_tick /\ outcome' = "absent"

\* C14: a poll that finds the snapshot absent sets the waiting banner when
\* completion has not been triggered (and leaves the banner alone when it
\* has), keeps the timer running, and leaves the checklist rows, the stage
\* definitions, the cache, the detail table and the completion state as
\* they were, also when the worker-done flag is set.
C14_AbsentPollFrame ==
  [][AbsentPoll =>
       /\ status_label' = (IF completion_triggered THEN status_label
                           ELSE WaitingFeed)
       /\ timer_active'
       /\ UNCHANGED <<items, checklist, stage_definitions, repo_index_cache,
                      detail_rows, completion_triggered, emitted,
                      completion_stops, close_scheduled, close_pending>>]_vars

\* C14 witness: the snapshot was found absent while a discovered stage was
\* shown as done, was cached and shown in the detail table, and the worker
\* was done
C14_Witness ==
  /\ outcome = "absent"
  /\ status_label = WaitingFeed
  /\ worker_done
  /\ ~completion_triggered
  /\ timer_active
  /\ repo_index_cache # <<>>
  /\ detail_rows # <<>>
  /\ S_alpha \in DOMAIN items
  /\ items[S_alpha].check = Checked

\* the last call of main_json had the command of the contract and named a
\* snapshot path, and did not ask for a launch
PlainInvocation ==
  /\ result # NoResult
  /\ invocation.payload.command = "x_make_progress_board_x"
  /\ invocation.payload.parameters.given
  /\ invocation.payload.parameters.snapshot_path # <<>>
  /\ ~LaunchRequested(invocation.payload.parameters)

Invoked ==
  /\ snapshot_file' = snapshot_file
  /\ <<invocation, result, launches>>' # <<invocation, result, launches>>

\* the sequence of message parts has the part
Contains(message, part) == \E i \in 1..Len(message) : message[i] = part

\* C17: a call whose command is not "x_make_progress_board_x" returns a
\* failure payload whose message has the indication "input payload failed
\* validation", and launches nothing, whatever its parameters ask for.
C17_WrongCommandFails ==
  /\ [](invocation.payload.command # "x_make_progress_board_x"
          /\ result # NoResult
        => /\ result.status = "failure"
           /\ Contains(result.message, "input payload failed validation"))
  /\ [][(Invoked /\ invocation'.payload.command # "x_make_progress_board_x")
          => launches' = launches]_vars

\* C17 witness: a payload with the wrong command, otherwise valid, that asks
\* for a launch was refused while the snapshot file existed
C17_Witness ==
  /\ invocation.payload.command = "unexpected"
  /\ invocation.payload.parameters.given
  /\ LaunchRequested(invocation.payload.parameters)
  /\ ValidParameters(invocation.payload.parameters)
  /\ invocation.snapshot.exists
  /\ result.status = "failure"
  /\ launches = 0

\* the positions of the messages that are non-empty after trimming
NonBlankPositions(messages) ==
  {i \in 1..Len(messages) : Strip(messages[i]) # <<>>}

\* the largest element of a non-empty set of numbers
Largest(set) == CHOOSE i \in set : \A j \in set : j <= i

\* " (m)" for the last message that is non-empty after trimming, m being its
\* trimmed text; empty when there is none
SuffixOfLastNonBlank(messages) ==
  IF NonBlankPositions(messages) = {} THEN <<>>
  ELSE <<" ", "(">>
         \o Strip(messages[Largest(NonBlankPositions(messages))])
         \o <<")">>

\* C18: after a poll, the display text of a stage ends with " (m)", m being
\* the trimmed text of the last message of the stage's message sequence that
\* is non-empty after trimming, and with nothing when every message is blank
\* or there is no message.
C18_SuffixIsLastNonBlankMessage ==
  (outcome = "updated" /\ Len(last_present) = 1) =>
    items[S_alpha].text =
      T_Alpha \o <<" ", "-", " ">> \o last_present[1].status
        \o SuffixOfLastNonBlank(last_present[1].messages)

\* C18 witness: the log is a padded "ok", "done", a blank; the row shows
\* "Alpha - running (done)"
C18_Witness ==
  /\ outcome = "updated"
  /\ Len(last_present) = 1
  /\ last_present[1].messages = << <<" ">> \o M_ok \o <<"\n">>, S_done, <<" ">> >>
  /\ items[S_alpha].text =
       T_Alpha \o <<" ", "-", " ">> \o S_running
         \o <<" ", "(">> \o S_done \o <<")">>

\* C18 second witness: every message of the log is blank and the row has no
\* suffix
C18_WitnessBlank ==
  /\ outcome = "updated"
  /\ Len(last_present) = 1
  /\ last_present[1].messages = << <<" ">>, <<>> >>
  /\ items[S_alpha].text = T_Alpha \o <<" ", "-", " ">> \o S_running

\* the raw entries of an index payload that are objects
RawObjects(content) ==
  IF content.entries.islist
    THEN SelectSeq(content.entries.items, LAMBDA e : e.isdict)
    ELSE <<>>

\* what a poll that read a stage's index file, a JSON object, left in the
\* cache: one entry per raw entry that is an object, in order, with the
\* display name falling back to repo_id and then to "<repo>" and the status
\* to "pending"; and one detail row per such entry when the stage is
\* selected and the poll refreshed the table
ReadNormalized(stage) ==
  LET id == stage.stage_id
      raw == RawObjects(files[IndexPathOf(stage)].content)
      kept == repo_index_cache'[id].entries
  IN /\ Len(kept) = Len(raw)
     /\ \A i \in 1..Len(raw) :
          /\ kept[i].display_name =
               (IF raw[i].display_name # <<>> THEN raw[i].display_name
                ELSE IF raw[i].repo_id # <<>> THEN raw[i].repo_id
                ELSE <<"<","r","e","p","o",">">>)
          /\ kept[i].status =
               (IF raw[i].status # <<>> THEN raw[i].status
                ELSE <<"p","e","n","d","i","n","g">>)
     /\ (checklist_selection = id /\ outcome' = "updated")
          => Len(detail_rows') = Len(raw)

\* C19: every entry held in the cache has a non-empty display name, a
\* non-empty status and no blank message; and a poll that reads an index
\* file keeps one normalized entry per raw entry that is an object (display
\* name falling back to repo_id, then to "<repo>"; status to "pending"),
\* the other raw entries giving no cache entry and no detail row.
C19_EntriesNormalized ==
  /\ [](\A id \in DOMAIN repo_index_cache :
          \A i \in 1..Len(repo_index_cache[id].entries) :
            LET entry == repo_index_cache[id].entries[i]
            IN /\ entry.display_name # <<>>
               /\ entry.status # <<>>
               /\ \A m \in 1..Len(entry.messages) :
                    Strip(entry.messages[m]) # <<>>)
  /\ [][PresentPoll =>
          \A i \in 1..Len(last_present') :
            (/\ last_present'[i].stage_id \in reads'
             /\ files[IndexPathOf(last_present'[i])].content.kind = "object")
              => /\ last_present'[i].stage_id \in DOMAIN repo_index_cache'
                 /\ ReadNormalized(last_present'[i])]_vars

\* C19 witness: a payload of four raw entries, two of them not objects and
\* two with no key at all, is cached as two "<repo>" / "pending" entries
\* and shown as two rows
C19_Witness ==
  /\ outcome = "updated"
  /\ S_alpha \in DOMAIN repo_index_cache
  /\ Len(files[IndexPath1].content.entries.items) = 4
  /\ Len(repo_index_cache[S_alpha].entries) = 2
  /\ repo_index_cache[S_alpha].entries[2].display_name = S_repo
  /\ repo_index_cache[S_alpha].entries[2].status = S_pending
  /\ Len(detail_rows) = 2

\* C19 second witness: a preview list with a blank, a padded and an empty
\* string is cached as the one trimmed message
C19_WitnessMessages ==
  /\ S_alpha \in DOMAIN repo_index_cache
  /\ Len(repo_index_cache[S_alpha].entries) = 1
  /\ files[IndexPath1].content.entries.items[1].message_preview
       = [kind |-> "list", items |-> << <<" ">>, <<" ">> \o M_ok, <<>> >>]
  /\ repo_index_cache[S_alpha].entries[1].messages = <<M_ok>>

\* C20: the marker and the aggregate agree. After a poll of the one tracked
\* stage, whatever its status string, the stage has the done marker if and
\* only if the all-done aggregate of that poll counted it as done.
C20_MarkerAgreesWithAggregate ==
  (outcome = "updated" /\ Len(last_present) = 1) =>
    (PolledMarker = MarkerDone <=> all_done)

\* C21: after a poll with a present snapshot, the cache entry of every stage
\* of the snapshot records the index path the stage's metadata declares, and
\* when that path differs from the one the stage's earlier entry recorded,
\* the entry holds what the newly declared file holds, whatever the
\* modification times of the two files.
C21_EntryOfDeclaredPath ==
  [][PresentPoll =>
       \A i \in 1..Len(last_present') :
         LET id == last_present'[i].stage_id
             path == IndexPathOf(last_present'[i])
         IN id \in DOMAIN repo_index_cache' =>
              /\ repo_index_cache'[id].path = path
              /\ (/\ id \in DOMAIN repo_index_cache
                  /\ repo_index_cache[id].path # path
                  /\ SafeStat(files, path)
                  /\ files[path].content.kind = "object")
                   => repo_index_cache'[id] = FreshEntry(path)]_vars

IsPrefix(s, t) == Len(s) <= Len(t) /\ \A i \in 1..Len(s) : t[i] = s[i]

\* the definitions of the stages of a snapshot whose ids are not in known, in
\* the snapshot's order
NewDefinitions(snapshot, known) ==
  LET new == SelectSeq(snapshot, LAMBDA st : st.stage_id \notin known)
  IN [k \in 1..Len(new) |-> Def(new[k].stage_id, new[k].title)]

\* C22: in every state the ids of the item mapping are exactly the ids of the
\* stage-definition list, the construction-time definitions are a prefix of
\* the list in their original order and no id that discovery added occurs at
\* a second position; and every step leaves the list as it is or, being a
\* poll with a present snapshot, appends to it the stages of that snapshot
\* that had no item, in the snapshot's order.
C22_DefinitionsGrowByAppending ==
  /\ [](/\ DOMAIN items = DefIds(stage_definitions)
        /\ IsPrefix(construction_definitions, stage_definitions)
        /\ \A i \in 1..Len(stage_definitions) :
             \A j \in (Len(construction_definitions) + 1)..Len(stage_definitions) :
               i # j => stage_definitions[i].id # stage_definitions[j].id)
  /\ [][/\ IsPrefix(stage_definitions, stage_definitions')
        /\ stage_definitions' # stage_definitions =>
             /\ PresentPoll
             /\ stage_definitions' =
                  stage_definitions
                    \o NewDefinitions(last_present', DOMAIN items)]_vars

\* a board built with the stage beta tracks alpha as well, which a poll
\* discovered, after a poll that reported both and ran to its end
C22_Witness ==
  /\ construction_definitions = <<Def(S_beta, T_Build)>>
  /\ stage_definitions = <<Def(S_beta, T_Build), Def(S_alpha, T_Alpha)>>
  /\ StageIdsOf(last_present) = {S_alpha, S_beta}
  /\ DOMAIN items = {S_alpha, S_beta}
  /\ outcome = "updated"

\* a board built with no stage has discovered two, which follow in the order
\* of their discovery
C22_WitnessDiscoveryOrder ==
  /\ construction_definitions = <<>>
  /\ Len(stage_definitions) = 2
  /\ stage_definitions[1].id # stage_definitions[2].id
  /\ Len(last_present) = 1
  /\ last_present[1].stage_id = stage_definitions[2].id

\* the title a stage is tracked under
TitleOf(defs, id) ==
  (CHOOSE d \in {defs[i] : i \in 1..Len(defs)} : d.id = id).title

\* C23: after a poll with a present snapshot, every tracked stage that the
\* snapshot lacks, whatever its row showed before, is displayed as
\* "{title} - pending" with the not-started marker, and the all-done
\* aggregate of that poll is false.
C23_MissingStageShownPending ==
  [][PresentPoll =>
       \A id \in DOMAIN items' \ StageIdsOf(last_present') :
         /\ items'[id].text =
              TitleOf(stage_definitions', id) \o <<" ", "-", " ">> \o S_pending
         /\ items'[id].check = Unchecked
         /\ ~all_done']_vars

\* alpha, which an earlier snapshot reported, is missing from the latest one,
\* which reported beta as Completed: alpha's row is back to pending
C23_Witness ==
  /\ S_alpha \in seen
  /\ Len(last_present) = 1
  /\ last_present[1].stage_id = S_beta
  /\ last_present[1].status = Capitalize(S_completed)
  /\ items[S_beta].check = Checked
  /\ items[S_alpha].text = T_Alpha \o <<" ", "-", " ">> \o S_pending
  /\ items[S_alpha].check = Unchecked
  /\ ~all_done
  /\ outcome = "updated"

\* beta, tracked since construction and never reported, is pending after a
\* poll whose snapshot holds only alpha
C23_WitnessNeverReported ==
  /\ S_beta \in DefIds(construction_definitions) \ seen
  /\ StageIdsOf(last_present) = {S_alpha}
  /\ items[S_beta].text = T_Build \o <<" ", "-", " ">> \o S_pending
  /\ ~all_done
  /\ outcome \in {"updated", "raised"}

====
